---- MODULE Spec2Model ----
(***************************************************************************)
(* Model of prometheus_docker_sd: the resolution of a Docker container     *)
(* snapshot into Prometheus scrape targets (docker.extract), and the       *)
(* conversion of the resolved records into file_sd entries (main.convert), *)
(* the gauges (main.updateMetrics), and the poll loop of main with the     *)
(* status page that it feeds (web.handler).                                *)
(* Strings are TLA+ strings; characters are strings of length 1.           *)
(***************************************************************************)
EXTENDS Integers, Sequences, FiniteSets, TLC

\* one call of Discovery.Refresh followed by convert and updateMetrics
VARIABLES containers, networkLabels, appended, result, exports, pc, gauges

\* the poll loop of main
VARIABLES mainPc, timer, attempts, errors, cycleXs, file

\* the hand-over to the status page: the channel, the update goroutine of
\* the handler, the handler's mutex and view, the requests being served
VARIABLES updates, updPc, update, view, rw, reqPc, rendered

\* history: the snapshots sent, how many of them are installed as the view,
\* the cycles written to the file, the cycle the gauges show, timers armed
\* in the loop, cycles in progress, the snapshot each request read
VARIABLES sent, installed, written, gaugesOf, rearmed, running, renderedOf

extractVars == <<containers, networkLabels, appended, result, exports, pc>>

pollVars == <<mainPc, timer, attempts, errors, cycleXs, file>>

webVars == <<updates, updPc, update, view, rw, reqPc, rendered>>

historyVars == <<sent, installed, written, gaugesOf, rearmed, running, renderedOf>>

vars == <<extractVars, gauges, pollVars, webVars, historyVars>>

(***************************************************************************)
(* Bounds of the model.                                                    *)
(***************************************************************************)
MaxContainers == 3
MaxPorts == 2
\* poll cycles started
MaxCycles == 3
\* /containers requests served at the same time
MaxRequests == 2

(***************************************************************************)
(* Program constants: docker.go const block and prometheus/common/model.   *)
(***************************************************************************)
MaxUint16 == 65535

MetaLabelPrefix == "__meta_"
dockerLabel == MetaLabelPrefix \o "docker_"
dockerLabelContainerPrefix == dockerLabel \o "container_"
dockerLabelContainerID == dockerLabelContainerPrefix \o "id"
dockerLabelContainerName == dockerLabelContainerPrefix \o "name"
dockerLabelContainerState == dockerLabelContainerPrefix \o "state"
dockerLabelContainerNetworkMode == dockerLabelContainerPrefix \o "network_mode"
dockerLabelContainerLabelPrefix == dockerLabelContainerPrefix \o "label_"
dockerLabelNetworkPrefix == dockerLabel \o "network_"
dockerLabelNetworkIP == dockerLabelNetworkPrefix \o "ip"
dockerLabelPortPrefix == dockerLabel \o "port_"
dockerLabelPortPrivate == dockerLabelPortPrefix \o "private"
dockerLabelPortPublic == dockerLabelPortPrefix \o "public"
dockerLabelPortPublicIP == dockerLabelPortPrefix \o "public_ip"
extractLabelPrefix == "prometheus_"
jobLabelPrefix == extractLabelPrefix \o "job"
extractScrapePrefix == "prometheus_scrape_"
scrapePort == extractScrapePrefix \o "port"
scrapeInterval == extractScrapePrefix \o "interval"
scrapeTimeout == extractScrapePrefix \o "timeout"
scrapePath == extractScrapePrefix \o "path"
scrapeScheme == extractScrapePrefix \o "scheme"
scrapeExternal == extractScrapePrefix \o "external"
fakeIP == "1.1.1.1"

ScrapeIntervalLabel == "__scrape_interval__"
ScrapeTimeoutLabel == "__scrape_timeout__"
MetricsPathLabel == "__metrics_path__"
SchemeLabel == "__scheme__"
AddressLabel == "__address__"
InstanceLabel == "instance"
JobLabel == "job"

(***************************************************************************)
(* Configuration handed to docker.New (main.parseArgs).                    *)
(***************************************************************************)
instancePrefix == "host1"
externalHost == "ext1"
targetNetworkName == "metrics-net"

(***************************************************************************)
(* Strings.                                                                *)
(***************************************************************************)
LowerCase == "abcdefghijklmnopqrstuvwxyz"
UpperCase == "ABCDEFGHIJKLMNOPQRSTUVWXYZ"

\* the characters of the model's strings, in ascending byte order
Alphabet == "\"%&+-./0123456789:=" \o UpperCase \o "[]_" \o LowerCase

CharAt(s, i) == SubSeq(s, i, i)

Chars(s) == {CharAt(s, i) : i \in 1..Len(s)}

\* the position of the character c in s, 0 when it does not occur
IndexOf(s) ==
    [c \in Chars(Alphabet) |->
        IF c \in Chars(s) THEN CHOOSE i \in 1..Len(s) : CharAt(s, i) = c ELSE 0]

Ord == IndexOf(Alphabet)
UpperIndex == IndexOf(UpperCase)
LabelChars == Chars(LowerCase) \cup Chars(UpperCase) \cup Chars("0123456789_")
DigitChars == Chars("0123456789")

ContainsChar(s, c) == \E i \in 1..Len(s) : CharAt(s, i) = c

\* strings.HasPrefix
HasPrefix(s, prefix) ==
    Len(s) >= Len(prefix) /\ SubSeq(s, 1, Len(prefix)) = prefix

\* s[n:]
DropPrefix(s, n) == SubSeq(s, n + 1, Len(s))

\* Go's s < t on strings: bytewise lexicographic order
RECURSIVE StrLess(_, _)
StrLess(s, t) ==
    IF t = "" THEN FALSE
    ELSE IF s = "" THEN TRUE
    ELSE IF Head(s) = Head(t) THEN StrLess(Tail(s), Tail(t))
    ELSE Ord[Head(s)] < Ord[Head(t)]

\* strings.ToLower
RECURSIVE ToLower(_)
ToLower(s) ==
    IF s = "" THEN ""
    ELSE LET c == Head(s)
         IN (IF UpperIndex[c] > 0 THEN CharAt(LowerCase, UpperIndex[c]) ELSE c)
            \o ToLower(Tail(s))

IsLabelChar(c) == c \in LabelChars

\* strutil.SanitizeLabelName: every character outside [a-zA-Z0-9_] becomes '_'
RECURSIVE SanitizeLabelName(_)
SanitizeLabelName(name) ==
    IF name = "" THEN ""
    ELSE (IF IsLabelChar(Head(name)) THEN Head(name) ELSE "_")
         \o SanitizeLabelName(Tail(name))

IsDigit(c) == c \in DigitChars

DigitValue(c) == Ord[c] - Ord["0"]

RECURSIVE ParseDigits(_, _)
ParseDigits(s, acc) ==
    IF s = "" THEN acc
    ELSE ParseDigits(Tail(s), acc * 10 + DigitValue(Head(s)))

\* strconv.Atoi with the error dropped (p, _ := strconv.Atoi(port)): a
\* syntax error yields 0.  Values stay far below the int range.
Atoi(s) ==
    LET signed == s # "" /\ Head(s) \in {"+", "-"}
        body == IF signed THEN Tail(s) ELSE s
    IN IF body = "" \/ \E i \in 1..Len(body) : ~IsDigit(CharAt(body, i))
       THEN 0
       ELSE IF signed /\ Head(s) = "-"
            THEN 0 - ParseDigits(body, 0)
            ELSE ParseDigits(body, 0)

\* the conversion uint16(p) of an int
Uint16(p) == p % (MaxUint16 + 1)

\* strconv.FormatUint(uint64(n), 10)
FormatUint(n) == ToString(n)

\* net.JoinHostPort
JoinHostPort(host, port) ==
    IF ContainsChar(host, ":") \/ ContainsChar(host, "%")
    THEN "[" \o host \o "]:" \o port
    ELSE host \o ":" \o port

(***************************************************************************)
(* docker.Meta and the helpers of extract.                                 *)
(***************************************************************************)
\* IsExported without the port condition
IsExported_NoPortCheck(m) == m.HasJob /\ m.IsInTargetNetwork

\* whether the Container is exported
IsExported(m) == m.HasJob /\ m.IsInTargetNetwork /\ m.HasTCPPorts

\* m[k] = v on a Go map
Put(m, k, v) == [x \in DOMAIN m \cup {k} |-> IF x = k THEN v ELSE m[x]]

\* the zero value types.Port{}
ZeroPort == [IP |-> "", PrivatePort |-> 0, PublicPort |-> 0, Type |-> ""]

RECURSIVE matchScrapePort(_, _)
matchScrapePort(xs, port) ==
    IF xs = <<>> THEN [p |-> ZeroPort, found |-> FALSE]
    ELSE LET x == Head(xs)
         IN IF x.Type # "tcp" THEN matchScrapePort(Tail(xs), port)
            ELSE IF FormatUint(x.PrivatePort) = port
                 THEN [p |-> x, found |-> TRUE]
                 ELSE matchScrapePort(Tail(xs), port)

\* lowestStep without the check of the entry's type
lowestStep_AnyType(st, x) ==
    [candidates |-> IF x.PrivatePort \in st.seen
                    THEN st.candidates ELSE st.candidates + 1,
     min |-> IF x.PrivatePort < st.min THEN x.PrivatePort ELSE st.min,
     entry |-> IF x.PrivatePort < st.min THEN x ELSE st.entry,
     seen |-> st.seen \cup {x.PrivatePort}]

\* lowestStep counting every tcp entry as a candidate
lowestStep_NoDedup(st, x) ==
    IF x.Type # "tcp" THEN st
    ELSE [candidates |-> st.candidates + 1,
          min |-> IF x.PrivatePort < st.min THEN x.PrivatePort ELSE st.min,
          entry |-> IF x.PrivatePort < st.min THEN x ELSE st.entry,
          seen |-> st.seen \cup {x.PrivatePort}]

\* one iteration of the loop of findLowestTCPPrivatePort
lowestStep(st, x) ==
    IF x.Type # "tcp" THEN st
    ELSE [candidates |-> IF x.PrivatePort \in st.seen
                         THEN st.candidates ELSE st.candidates + 1,
          min |-> IF x.PrivatePort < st.min THEN x.PrivatePort ELSE st.min,
          entry |-> IF x.PrivatePort < st.min THEN x ELSE st.entry,
          seen |-> st.seen \cup {x.PrivatePort}]

RECURSIVE lowestLoop(_, _)
lowestLoop(st, xs) ==
    IF xs = <<>> THEN st ELSE lowestLoop(lowestStep(st, Head(xs)), Tail(xs))

findLowestTCPPrivatePort(xs) ==
    LET st == lowestLoop([candidates |-> 0, min |-> MaxUint16,
                          entry |-> ZeroPort, seen |-> {}], xs)
    IN [p |-> st.entry, candidates |-> st.candidates, found |-> st.min < MaxUint16]

\* newMeta taking any label under the export prefix for the job label
newMeta_AnyExportLabel(c) ==
    [Name |-> c.Names[1],
     Address |-> "",
     Labels |-> Put(Put(Put(Put(<<>>,
                    dockerLabelContainerID, c.ID),
                    dockerLabelContainerName, c.Names[1]),
                    dockerLabelContainerState, c.State),
                    dockerLabelContainerNetworkMode, c.NetworkMode),
     HasJob |-> \E k \in DOMAIN c.Labels : HasPrefix(k, extractLabelPrefix),
     IsInTargetNetwork |-> FALSE,
     HasTCPPorts |-> FALSE,
     HasExplicitPort |-> FALSE,
     ScrapeExternal |-> FALSE]

\* the initial record without the network mode label
newMeta_NoNetworkMode(c) ==
    [Name |-> c.Names[1],
     Address |-> "",
     Labels |-> Put(Put(Put(<<>>,
                    dockerLabelContainerID, c.ID),
                    dockerLabelContainerName, c.Names[1]),
                    dockerLabelContainerState, c.State),
     HasJob |-> jobLabelPrefix \in DOMAIN c.Labels,
     IsInTargetNetwork |-> FALSE,
     HasTCPPorts |-> FALSE,
     HasExplicitPort |-> FALSE,
     ScrapeExternal |-> FALSE]

\* the record extract starts with for a named container (docker.go 181-191)
newMeta(c) ==
    [Name |-> c.Names[1],
     Address |-> "",
     Labels |-> Put(Put(Put(Put(<<>>,
                    dockerLabelContainerID, c.ID),
                    dockerLabelContainerName, c.Names[1]),
                    dockerLabelContainerState, c.State),
                    dockerLabelContainerNetworkMode, c.NetworkMode),
     HasJob |-> jobLabelPrefix \in DOMAIN c.Labels,
     IsInTargetNetwork |-> FALSE,
     HasTCPPorts |-> FALSE,
     HasExplicitPort |-> FALSE,
     ScrapeExternal |-> FALSE]

\* the label rewrite step copying the control labels like any other label
rewriteLabel_CopyControl(st, k, v) ==
    LET ln == SanitizeLabelName(k)
        copied == IF HasPrefix(ln, extractLabelPrefix)
                  THEN [st EXCEPT !.meta.Labels =
                           Put(@, DropPrefix(ln, Len(extractLabelPrefix)), v)]
                  ELSE [st EXCEPT !.meta.Labels =
                           Put(@, dockerLabelContainerLabelPrefix \o ln, v)]
    IN CASE k = scrapePort -> [copied EXCEPT !.port = v]
         [] k = scrapeInterval ->
              [copied EXCEPT !.meta.Labels = Put(@, ScrapeIntervalLabel, v)]
         [] k = scrapeTimeout ->
              [copied EXCEPT !.meta.Labels = Put(@, ScrapeTimeoutLabel, v)]
         [] k = scrapePath ->
              [copied EXCEPT !.meta.Labels = Put(@, MetricsPathLabel, v)]
         [] k = scrapeScheme ->
              [copied EXCEPT !.meta.Labels = Put(@, SchemeLabel, v)]
         [] k = scrapeExternal ->
              [copied EXCEPT !.meta.ScrapeExternal = (ToLower(v) = "true")]
         [] OTHER -> copied

\* the label rewrite step leaving the export prefix on the output key
rewriteLabel_KeepPrefix(st, k, v) ==
    LET ln == SanitizeLabelName(k)
    IN IF HasPrefix(ln, extractScrapePrefix)
       THEN CASE k = scrapePort -> [st EXCEPT !.port = v]
              [] k = scrapeInterval ->
                   [st EXCEPT !.meta.Labels = Put(@, ScrapeIntervalLabel, v)]
              [] k = scrapeTimeout ->
                   [st EXCEPT !.meta.Labels = Put(@, ScrapeTimeoutLabel, v)]
              [] k = scrapePath ->
                   [st EXCEPT !.meta.Labels = Put(@, MetricsPathLabel, v)]
              [] k = scrapeScheme ->
                   [st EXCEPT !.meta.Labels = Put(@, SchemeLabel, v)]
              [] k = scrapeExternal ->
                   [st EXCEPT !.meta.ScrapeExternal = (ToLower(v) = "true")]
              [] OTHER -> st
       ELSE IF HasPrefix(ln, extractLabelPrefix)
            THEN [st EXCEPT !.meta.Labels = Put(@, ln, v)]
            ELSE [st EXCEPT !.meta.Labels =
                     Put(@, dockerLabelContainerLabelPrefix \o ln, v)]

\* the label rewrite step consuming the job label without writing "job"
rewriteLabel_DropJob(st, k, v) ==
    LET ln == SanitizeLabelName(k)
    IN IF HasPrefix(ln, extractScrapePrefix)
       THEN CASE k = scrapePort -> [st EXCEPT !.port = v]
              [] k = scrapeInterval ->
                   [st EXCEPT !.meta.Labels = Put(@, ScrapeIntervalLabel, v)]
              [] k = scrapeTimeout ->
                   [st EXCEPT !.meta.Labels = Put(@, ScrapeTimeoutLabel, v)]
              [] k = scrapePath ->
                   [st EXCEPT !.meta.Labels = Put(@, MetricsPathLabel, v)]
              [] k = scrapeScheme ->
                   [st EXCEPT !.meta.Labels = Put(@, SchemeLabel, v)]
              [] k = scrapeExternal ->
                   [st EXCEPT !.meta.ScrapeExternal = (ToLower(v) = "true")]
              [] OTHER -> st
       ELSE IF k = jobLabelPrefix
            THEN st
            ELSE IF HasPrefix(ln, extractLabelPrefix)
            THEN [st EXCEPT !.meta.Labels =
                     Put(@, DropPrefix(ln, Len(extractLabelPrefix)), v)]
            ELSE [st EXCEPT !.meta.Labels =
                     Put(@, dockerLabelContainerLabelPrefix \o ln, v)]

\* the label rewrite step writing the metrics path under the scheme label
rewriteLabel_PathAsScheme(st, k, v) ==
    LET ln == SanitizeLabelName(k)
    IN IF HasPrefix(ln, extractScrapePrefix)
       THEN CASE k = scrapePort -> [st EXCEPT !.port = v]
              [] k = scrapeInterval ->
                   [st EXCEPT !.meta.Labels = Put(@, ScrapeIntervalLabel, v)]
              [] k = scrapeTimeout ->
                   [st EXCEPT !.meta.Labels = Put(@, ScrapeTimeoutLabel, v)]
              [] k = scrapePath ->
                   [st EXCEPT !.meta.Labels = Put(@, SchemeLabel, v)]
              [] k = scrapeScheme ->
                   [st EXCEPT !.meta.Labels = Put(@, SchemeLabel, v)]
              [] k = scrapeExternal ->
                   [st EXCEPT !.meta.ScrapeExternal = (ToLower(v) = "true")]
              [] OTHER -> st
       ELSE IF HasPrefix(ln, extractLabelPrefix)
            THEN [st EXCEPT !.meta.Labels =
                     Put(@, DropPrefix(ln, Len(extractLabelPrefix)), v)]
            ELSE [st EXCEPT !.meta.Labels =
                     Put(@, dockerLabelContainerLabelPrefix \o ln, v)]

\* one iteration of the label rewrite loop (docker.go 194-217);
\* st is the pair of the locals meta and port
rewriteLabel(st, k, v) ==
    LET ln == SanitizeLabelName(k)
    IN IF HasPrefix(ln, extractScrapePrefix)
       THEN CASE k = scrapePort -> [st EXCEPT !.port = v]
              [] k = scrapeInterval ->
                   [st EXCEPT !.meta.Labels = Put(@, ScrapeIntervalLabel, v)]
              [] k = scrapeTimeout ->
                   [st EXCEPT !.meta.Labels = Put(@, ScrapeTimeoutLabel, v)]
              [] k = scrapePath ->
                   [st EXCEPT !.meta.Labels = Put(@, MetricsPathLabel, v)]
              [] k = scrapeScheme ->
                   [st EXCEPT !.meta.Labels = Put(@, SchemeLabel, v)]
              [] k = scrapeExternal ->
                   [st EXCEPT !.meta.ScrapeExternal = (ToLower(v) = "true")]
              [] OTHER -> st
       ELSE IF HasPrefix(ln, extractLabelPrefix)
            THEN [st EXCEPT !.meta.Labels =
                     Put(@, DropPrefix(ln, Len(extractLabelPrefix)), v)]
            ELSE [st EXCEPT !.meta.Labels =
                     Put(@, dockerLabelContainerLabelPrefix \o ln, v)]

\* the loop over c.Labels, visiting the keys in the given order
RECURSIVE rewriteLabels(_, _, _)
rewriteLabels(st, labels, order) ==
    IF order = <<>> THEN st
    ELSE rewriteLabels(rewriteLabel(st, Head(order), labels[Head(order)]),
                       labels, Tail(order))

\* Go iterates a map in an unspecified order: every enumeration of the keys
RECURSIVE Orders(_)
Orders(S) ==
    IF S = {} THEN {<<>>}
    ELSE UNION {{<<k>> \o o : o \in Orders(S \ {k})} : k \in S}

\* "no ports, but scrape port explicitly defined" (docker.go 231-241): the
\* port list and the endpoint n as the block leaves them
materializePorts(ports, n, port) ==
    IF Len(ports) = 0 /\ port # ""
    THEN [ports |-> <<[ZeroPort EXCEPT !.Type = "tcp",
                                       !.PrivatePort = Uint16(Atoi(port))]>>,
          n |-> IF n.IPAddress = "" THEN [n EXCEPT !.IPAddress = fakeIP] ELSE n]
    ELSE [ports |-> ports, n |-> n]

\* "match scrape port, fallback to lowest if not defined/found" (docker.go 245-261)
selectPort(ports, port) ==
    LET match == matchScrapePort(ports, port)
        lowest == findLowestTCPPrivatePort(ports)
    IN IF match.found
       THEN [found |-> TRUE, p |-> match.p, explicit |-> TRUE]
       ELSE [found |-> lowest.found, p |-> lowest.p,
             explicit |-> lowest.candidates = 1 \/ port # ""]

\* composeTarget taking the port of the address from the selected entry only
composeTarget_SelectedPort(meta, n, p, explicit, port, netLabels) ==
    LET l1 == Put(meta.Labels, dockerLabelPortPrivate, FormatUint(p.PrivatePort))
        l2 == IF p.PublicPort > 0
              THEN Put(Put(l1, dockerLabelPortPublic, FormatUint(p.PublicPort)),
                       dockerLabelPortPublicIP, p.IP)
              ELSE l1
        nl == IF n.NetworkID \in DOMAIN netLabels
              THEN netLabels[n.NetworkID] ELSE <<>>
        l3 == [k \in DOMAIN l2 \cup DOMAIN nl |->
                  IF k \in DOMAIN nl THEN nl[k] ELSE l2[k]]
        port2 == FormatUint(p.PrivatePort)
        address == IF meta.ScrapeExternal
                   THEN JoinHostPort(externalHost, port2)
                   ELSE JoinHostPort(n.IPAddress, port2)
    IN [meta EXCEPT !.HasExplicitPort = explicit,
                    !.HasTCPPorts = TRUE,
                    !.Address = address,
                    !.Labels = Put(Put(l3, AddressLabel, address),
                                   InstanceLabel,
                                   instancePrefix \o meta.Name \o ":" \o port2)]

\* composeTarget merging the network labels after the address and instance labels
composeTarget_NetworkLabelsLast(meta, n, p, explicit, port, netLabels) ==
    LET l1 == Put(meta.Labels, dockerLabelPortPrivate, FormatUint(p.PrivatePort))
        l2 == IF p.PublicPort > 0
              THEN Put(Put(l1, dockerLabelPortPublic, FormatUint(p.PublicPort)),
                       dockerLabelPortPublicIP, p.IP)
              ELSE l1
        nl == IF n.NetworkID \in DOMAIN netLabels
              THEN netLabels[n.NetworkID] ELSE <<>>
        port2 == IF port = "" THEN FormatUint(p.PrivatePort) ELSE port
        address == IF meta.ScrapeExternal
                   THEN JoinHostPort(externalHost, port2)
                   ELSE JoinHostPort(n.IPAddress, port2)
        l3 == Put(Put(l2, AddressLabel, address),
                  InstanceLabel, instancePrefix \o meta.Name \o ":" \o port2)
    IN [meta EXCEPT !.HasExplicitPort = explicit,
                    !.HasTCPPorts = TRUE,
                    !.Address = address,
                    !.Labels = [k \in DOMAIN l3 \cup DOMAIN nl |->
                                   IF k \in DOMAIN nl THEN nl[k] ELSE l3[k]]]

\* composeTarget keeping the labels of the record where a network label has
\* the same key
composeTarget_RecordLabelsWin(meta, n, p, explicit, port, netLabels) ==
    LET l1 == Put(meta.Labels, dockerLabelPortPrivate, FormatUint(p.PrivatePort))
        l2 == IF p.PublicPort > 0
              THEN Put(Put(l1, dockerLabelPortPublic, FormatUint(p.PublicPort)),
                       dockerLabelPortPublicIP, p.IP)
              ELSE l1
        nl == IF n.NetworkID \in DOMAIN netLabels
              THEN netLabels[n.NetworkID] ELSE <<>>
        l3 == [k \in DOMAIN l2 \cup DOMAIN nl |->
                  IF k \in DOMAIN l2 THEN l2[k] ELSE nl[k]]
        port2 == IF port = "" THEN FormatUint(p.PrivatePort) ELSE port
        address == IF meta.ScrapeExternal
                   THEN JoinHostPort(externalHost, port2)
                   ELSE JoinHostPort(n.IPAddress, port2)
    IN [meta EXCEPT !.HasExplicitPort = explicit,
                    !.HasTCPPorts = TRUE,
                    !.Address = address,
                    !.Labels = Put(Put(l3, AddressLabel, address),
                                   InstanceLabel,
                                   instancePrefix \o meta.Name \o ":" \o port2)]

\* the record of a container with a selected port p (docker.go 262-284)
composeTarget(meta, n, p, explicit, port, netLabels) ==
    LET l1 == Put(meta.Labels, dockerLabelPortPrivate, FormatUint(p.PrivatePort))
        l2 == IF p.PublicPort > 0
              THEN Put(Put(l1, dockerLabelPortPublic, FormatUint(p.PublicPort)),
                       dockerLabelPortPublicIP, p.IP)
              ELSE l1
        nl == IF n.NetworkID \in DOMAIN netLabels
              THEN netLabels[n.NetworkID] ELSE <<>>
        l3 == [k \in DOMAIN l2 \cup DOMAIN nl |->
                  IF k \in DOMAIN nl THEN nl[k] ELSE l2[k]]
        port2 == IF port = "" THEN FormatUint(p.PrivatePort) ELSE port
        address == IF meta.ScrapeExternal
                   THEN JoinHostPort(externalHost, port2)
                   ELSE JoinHostPort(n.IPAddress, port2)
    IN [meta EXCEPT !.HasExplicitPort = explicit,
                    !.HasTCPPorts = TRUE,
                    !.Address = address,
                    !.Labels = Put(Put(l3, AddressLabel, address),
                                   InstanceLabel,
                                   instancePrefix \o meta.Name \o ":" \o port2)]

\* resolveTarget setting IsInTargetNetwork before the network is looked up
resolveTarget_FlagBeforeLookup(c, meta, port, netLabels) ==
    LET found == targetNetworkName \in DOMAIN c.Networks
        m0 == [meta EXCEPT !.IsInTargetNetwork = TRUE]
    IN IF ~meta.ScrapeExternal /\ ~found
       THEN [kind |-> "append", meta |-> m0, c |-> c]
       ELSE IF ~found
       THEN [kind |-> "panic", meta |-> m0, c |-> c]
       ELSE
         LET mat == materializePorts(c.Ports, c.Networks[targetNetworkName], port)
             m1 == [m0 EXCEPT !.Labels = Put(@, dockerLabelNetworkIP, mat.n.IPAddress)]
             sel == selectPort(mat.ports, port)
         IN [kind |-> "append",
             meta |-> IF sel.found
                      THEN composeTarget(m1, mat.n, sel.p, sel.explicit, port, netLabels)
                      ELSE m1,
             c |-> [c EXCEPT !.Networks[targetNetworkName] = mat.n]]

\* the rest of the loop body (docker.go 219-286) for the locals meta and port.
\* kind: "append" (the record is appended), "panic" (n is a nil pointer and
\* n.IPAddress is read).  c is the container as the pass leaves it: n points
\* into the snapshot, so the write n.IPAddress = fakeIP lands there.
resolveTarget(c, meta, port, netLabels) ==
    LET found == targetNetworkName \in DOMAIN c.Networks
    IN IF ~meta.ScrapeExternal /\ ~found
       THEN [kind |-> "append", meta |-> meta, c |-> c]
       ELSE IF ~found
       THEN [kind |-> "panic", meta |-> meta, c |-> c]
       ELSE
         LET mat == materializePorts(c.Ports, c.Networks[targetNetworkName], port)
             m1 == [meta EXCEPT !.IsInTargetNetwork = TRUE,
                                !.Labels = Put(@, dockerLabelNetworkIP, mat.n.IPAddress)]
             sel == selectPort(mat.ports, port)
         IN [kind |-> "append",
             meta |-> IF sel.found
                      THEN composeTarget(m1, mat.n, sel.p, sel.explicit, port, netLabels)
                      ELSE m1,
             c |-> [c EXCEPT !.Networks[targetNetworkName] = mat.n]]

\* resolve leaving out the containers without the job label
resolve_SkipNoJob(c, netLabels) ==
    IF Len(c.Names) = 0 \/ jobLabelPrefix \notin DOMAIN c.Labels
    THEN {[kind |-> "skip", c |-> c]}
    ELSE {resolveTarget(c, st.meta, st.port, netLabels) :
            st \in {rewriteLabels([meta |-> newMeta(c), port |-> ""], c.Labels, o) :
                       o \in Orders(DOMAIN c.Labels)}}

\* resolve appending the initial record of a container without the job label
resolve_StopNoJob(c, netLabels) ==
    IF Len(c.Names) = 0
    THEN {[kind |-> "skip", c |-> c]}
    ELSE IF jobLabelPrefix \notin DOMAIN c.Labels
    THEN {[kind |-> "append", meta |-> newMeta(c), c |-> c]}
    ELSE {resolveTarget(c, st.meta, st.port, netLabels) :
            st \in {rewriteLabels([meta |-> newMeta(c), port |-> ""], c.Labels, o) :
                       o \in Orders(DOMAIN c.Labels)}}

\* the outcomes of one iteration of the loop over containers (docker.go 172-287)
resolve(c, netLabels) ==
    IF Len(c.Names) = 0
    THEN {[kind |-> "skip", c |-> c]}
    ELSE {resolveTarget(c, st.meta, st.port, netLabels) :
            st \in {rewriteLabels([meta |-> newMeta(c), port |-> ""], c.Labels, o) :
                       o \in Orders(DOMAIN c.Labels)}}

\* less comparing the names only
less_NameOnly(x, y) == StrLess(x.Name, y.Name)

\* the comparison function handed to sort.Slice (docker.go 289-298)
less(x, y) ==
    IF ~IsExported(x) /\ IsExported(y) THEN TRUE
    ELSE IF IsExported(x) /\ ~IsExported(y) THEN FALSE
    ELSE StrLess(x.Name, y.Name)

\* sort.Slice is not stable: any arrangement of xs that the comparison orders
SortSlice(xs) ==
    LET n == Len(xs)
        perms == {f \in [1..n -> 1..n] : \A i, j \in 1..n : i # j => f[i] # f[j]}
    IN {[i \in 1..n |-> xs[f[i]]] : f \in
           {g \in perms : \A i, j \in 1..n : i < j => ~less(xs[g[j]], xs[g[i]])}}

\* convert without the filter on IsExported
RECURSIVE convert_All(_)
convert_All(xs) ==
    IF xs = <<>> THEN <<>>
    ELSE <<[Targets |-> <<Head(xs).Address>>, Labels |-> Head(xs).Labels]>>
         \o convert_All(Tail(xs))

\* main.convert (main.go): the file_sd entries of the exported records
RECURSIVE convert(_)
convert(xs) ==
    IF xs = <<>> THEN <<>>
    ELSE IF ~IsExported(Head(xs)) THEN convert(Tail(xs))
    ELSE <<[Targets |-> <<Head(xs).Address>>, Labels |-> Head(xs).Labels]>>
         \o convert(Tail(xs))

(***************************************************************************)
(* main.updateMetrics and web.convert.                                     *)
(***************************************************************************)
ZeroGauges == [count |-> 0, ignored |-> 0, notInNetwork |-> 0, noPorts |-> 0, notExplicit |-> 0]

\* the loop body of updateMetrics without the continue statements
metricsStep_NoContinue(g, x) ==
    [g EXCEPT !.ignored = IF ~x.HasJob THEN @ + 1 ELSE @,
              !.notInNetwork = IF ~x.IsInTargetNetwork THEN @ + 1 ELSE @,
              !.noPorts = IF ~x.HasTCPPorts THEN @ + 1 ELSE @,
              !.notExplicit = IF ~x.HasExplicitPort THEN @ + 1 ELSE @]

\* the loop body of updateMetrics (main.go, docker.go 873-892)
metricsStep(g, x) ==
    IF ~x.HasJob THEN [g EXCEPT !.ignored = @ + 1]
    ELSE IF ~x.IsInTargetNetwork THEN [g EXCEPT !.notInNetwork = @ + 1]
    ELSE IF ~x.HasTCPPorts THEN [g EXCEPT !.noPorts = @ + 1]
    ELSE IF ~x.HasExplicitPort THEN [g EXCEPT !.notExplicit = @ + 1]
    ELSE g

RECURSIVE metricsLoop(_, _)
metricsLoop(g, recs) ==
    IF recs = <<>> THEN g
    ELSE metricsLoop(metricsStep(g, Head(recs)), Tail(recs))

\* the values updateMetrics sets the five gauges to (docker.go 871-899)
updateMetrics(recs) == metricsLoop([ZeroGauges EXCEPT !.count = Len(recs)], recs)

\* fmt.Sprintf(`%s="%s"`, k, v)
LabelString(k, v) == k \o "=\"" \o v \o "\""

\* sort.Strings
RECURSIVE SortStrings(_)
SortStrings(S) ==
    IF S = {} THEN <<>>
    ELSE LET least == CHOOSE a \in S : \A b \in S : ~StrLess(b, a)
         IN <<least>> \o SortStrings(S \ {least})

\* web.convertLabels (part_003 303-312)
convertLabels(m) == SortStrings({LabelString(k, m[k]) : k \in DOMAIN m})

\* View{} of a new handler
ZeroView == [Total |-> 0, WithJob |-> 0, OKs |-> 0, Errors |-> 0, Warnings |-> 0, Items |-> <<>>]

\* the loop body of web.convert (part_003 274-299)
viewStep(v, x) ==
    LET counted ==
            IF ~x.HasJob THEN v
            ELSE IF ~IsExported(x)
            THEN [v EXCEPT !.WithJob = @ + 1, !.Errors = @ + 1]
            ELSE IF x.HasExplicitPort
            THEN [v EXCEPT !.WithJob = @ + 1, !.OKs = @ + 1]
            ELSE [v EXCEPT !.WithJob = @ + 1, !.Warnings = @ + 1]
    IN [counted EXCEPT !.Items = Append(@,
           [Name |-> x.Name,
            Address |-> x.Address,
            Labels |-> convertLabels(x.Labels),
            HasJob |-> x.HasJob,
            IsExported |-> IsExported(x),
            IsInTargetNetwork |-> x.IsInTargetNetwork,
            HasTCPPorts |-> x.HasTCPPorts,
            HasExplicitPort |-> x.HasExplicitPort])]

RECURSIVE viewLoop(_, _)
viewLoop(v, recs) ==
    IF recs = <<>> THEN v
    ELSE viewLoop(viewStep(v, Head(recs)), Tail(recs))

\* web.convert (part_003 269-301): the view of a record list
webConvert(recs) == viewLoop([ZeroView EXCEPT !.Total = Len(recs)], recs)


(***************************************************************************)
(* The inputs: container snapshots as ContainerList returns them and the   *)
(* network-label map of getNetworksLabels.                                 *)
(***************************************************************************)
Endpoint(ip) == [IPAddress |-> ip, NetworkID |-> "net1"]

Port(type, private) == [ZeroPort EXCEPT !.Type = type, !.PrivatePort = private]

Container(names, labels, networks, ports) ==
    [ID |-> "id" \o (IF names = <<>> THEN "" ELSE names[1]),
     Names |-> names,
     Labels |-> labels,
     State |-> "running",
     NetworkMode |-> "default",
     Networks |-> networks,
     Ports |-> ports]

\* a label that may be absent: the maps with at most the key k
Optional(k, values) == {<<>>} \cup {k :> v : v \in values}

PortEntries ==
    {Port("tcp", 2000),
     [Port("tcp", 2000) EXCEPT !.PublicPort = 8080, !.IP = "0.0.0.0"],
     Port("tcp", 1000),
     Port("tcp", MaxUint16),
     Port("udp", 500)}

PortLists == UNION {[1..n -> PortEntries] : n \in 0..MaxPorts}

NetworkSettings ==
    {"bridge" :> Endpoint("ip2"),
     targetNetworkName :> Endpoint(""),
     targetNetworkName :> Endpoint("ip1") @@ "bridge" :> Endpoint("ip2")}

\* the map of getNetworksLabels, and maps with keys that extract writes itself
NetworkLabelMaps ==
    {<<>>,
     "net1" :> (dockerLabel \o "network_name" :> targetNetworkName),
     "net1" :> ("job" :> "netjob" @@ "key1" :> "netval" @@ jobLabelPrefix :> "netfwd"),
     "net1" :> (AddressLabel :> "evil:1" @@ InstanceLabel :> "evil"
                @@ dockerLabelContainerID :> "evilid")}

\* one container, every port list, the labels that steer the resolution
PortInputs ==
    {[containers |-> <<Container(<<"/app1">>, j @@ p @@ e, n, ports)>>,
      networkLabels |-> nl] :
        j \in Optional(jobLabelPrefix, {"job1"}),
        p \in Optional(scrapePort, {"", "2000", "1998", "abc", "065535"}),
        e \in Optional(scrapeExternal, {"TRUE", "false"}),
        n \in NetworkSettings,
        ports \in PortLists,
        nl \in {"net1" :> (dockerLabel \o "network_name" :> targetNetworkName)}}

ExtraLabels ==
    {"prometheus_key1" :> "val1",
     "prometheus&=5b" :> "val1",
     "prometheus.job" :> "job2",
     "com.docker.compose.service" :> "app1",
     scrapeInterval :> "5s",
     scrapeTimeout :> "10s",
     scrapePath :> "/stuff/metrics",
     scrapeScheme :> "https",
     scrapePort :> "1998",
     "prometheus_scrape_other" :> "x",
     "prometheus_" :> "empty",
     "prometheus_prometheus_job" :> "fwd",
     "prometheus_instance" :> "evil",
     "prometheus___address__" :> "evil:1",
     "prometheus___meta_docker_container_id" :> "evilid",
     scrapeInterval :> "5s" @@ scrapePath :> "/stuff/metrics" @@ scrapeScheme :> "https"}

\* a second label, among them labels whose output key another label writes
SecondLabels ==
    {"prometheus.job" :> "job2",
     "prometheus_key1" :> "val1",
     "prometheus.key1" :> "val2"}

\* one container, few port lists, the labels that are rewritten
LabelInputs ==
    {[containers |-> <<Container(<<"/app1">>, j @@ x @@ y, n, ports)>>,
      networkLabels |-> nl] :
        j \in Optional(jobLabelPrefix, {"job1"}),
        x \in ExtraLabels \cup {<<>>},
        y \in SecondLabels \cup {<<>>},
        n \in {"bridge" :> Endpoint("ip2"), targetNetworkName :> Endpoint("ip1")},
        ports \in {<<>>, <<Port("tcp", 2000)>>, <<Port("tcp", 2000), Port("tcp", 1000)>>},
        nl \in NetworkLabelMaps}

BatchContainers ==
    LET job == jobLabelPrefix :> "job1"
        in == targetNetworkName :> Endpoint("ip1")
        out == "bridge" :> Endpoint("ip2")
        tcp == <<Port("tcp", 2000)>>
    IN {Container(<<"/a">>, job, in, tcp),
        Container(<<"/b", "/alias">>, job, in, tcp),
        Container(<<"/B">>, job, in, <<Port("tcp", 2000), Port("tcp", 3000)>>),
        Container(<<"/a">>, <<>>, in, tcp),
        Container(<<"/b">>, job, out, tcp),
        Container(<<"/c">>, job, in, <<>>),
        Container(<<>>, job, in, tcp),
        Container(<<"/x">>, job @@ scrapeExternal :> "true", out, tcp)}

\* snapshots of several containers
BatchInputs ==
    {[containers |-> cs, networkLabels |-> <<>>] :
        cs \in UNION {[1..n -> BatchContainers] : n \in 0..MaxContainers}}

Inputs == PortInputs \cup LabelInputs \cup BatchInputs

(***************************************************************************)
(* The state machine: a snapshot is resolved by extract, the records are   *)
(* converted to the entries of the output file.                            *)
(***************************************************************************)
Requests == 1..MaxRequests

\* no snapshot: the value of the poll cycle's xs and of the update goroutine's
\* update outside their scope.  A snapshot carries the number of its cycle.
NoSnapshot == [id |-> 0, recs |-> <<>>]

\* main before the first iteration of its loop (docker.go 732-752), with the
\* handler that web.Serve started (part_003 217-221)
MainStart ==
    /\ mainPc = "select"
    /\ timer = "armed"
    /\ attempts = 0
    /\ errors = 0
    /\ cycleXs = NoSnapshot
    /\ file = [exists |-> FALSE, entries |-> <<>>]
    /\ updates = <<>>
    /\ updPc = "range"
    /\ update = NoSnapshot
    /\ view = ZeroView
    /\ rw = 0
    /\ reqPc = [r \in Requests |-> "idle"]
    /\ rendered = [r \in Requests |-> [status |-> "none", body |-> ZeroView]]
    /\ sent = <<>>
    /\ installed = 0
    /\ written = {}
    /\ gaugesOf = 0
    /\ rearmed = 0
    /\ running = 0
    /\ renderedOf = [r \in Requests |-> 0]

Init ==
    /\ \E in \in Inputs :
          /\ containers = in.containers
          /\ networkLabels = in.networkLabels
    /\ appended = <<>>
    /\ result = <<>>
    /\ exports = <<>>
    /\ pc = "start"
    /\ gauges = ZeroGauges
    /\ MainStart

\* the loop over containers: run is [result, containers, panicked]
RECURSIVE extractLoop(_, _, _)
extractLoop(run, i, choice) ==
    IF i > Len(choice) \/ run.panicked THEN run
    ELSE LET o == choice[i]
         IN extractLoop(
              [result |-> IF o.kind = "append"
                          THEN Append(run.result, o.meta) ELSE run.result,
               containers |-> [run.containers EXCEPT ![i] = o.c],
               panicked |-> o.kind = "panic"],
              i + 1, choice)

\* the runs of extract on the snapshot: one outcome per container
extract(cs, netLabels) ==
    LET outcomes == [i \in 1..Len(cs) |-> resolve(cs[i], netLabels)]
        choices == {ch \in [1..Len(cs) -> UNION {outcomes[i] : i \in 1..Len(cs)}] :
                       \A i \in 1..Len(cs) : ch[i] \in outcomes[i]}
    IN {extractLoop([result |-> <<>>, containers |-> cs, panicked |-> FALSE], 1, ch) :
           ch \in choices}

\* Discovery.Refresh: extract on the snapshot, returning the sorted records
Extract ==
    /\ pc = "start"
    /\ \E run \in extract(containers, networkLabels) :
          /\ containers' = run.containers
          /\ appended' = run.result
          /\ IF run.panicked
             THEN /\ result' = result
                  /\ pc' = "panicked"
             ELSE /\ result' \in SortSlice(run.result)
                  /\ pc' = "extracted"
    /\ UNCHANGED <<networkLabels, exports, gauges, pollVars, webVars, historyVars>>

\* convert(xs) in the poll cycle of main
Convert ==
    /\ pc = "extracted"
    /\ exports' = convert(result)
    /\ pc' = "converted"
    /\ UNCHANGED <<containers, networkLabels, appended, result, gauges,
                   pollVars, webVars, historyVars>>

\* updateMetrics(externalUrl, config.TargetNetwork, xs) in the poll cycle
UpdateMetrics ==
    /\ pc = "converted"
    /\ gauges' = updateMetrics(result)
    /\ pc' = "measured"
    /\ UNCHANGED <<containers, networkLabels, appended, result, exports,
                   pollVars, webVars, historyVars>>

Next == Extract \/ Convert \/ UpdateMetrics

Spec == Init /\ [][Next]_vars

(***************************************************************************)
(* The poll loop of main, the update goroutine of the status handler and   *)
(* the /containers requests.  A cycle's Refresh returns the records of one *)
(* of a few snapshots on which extract returns.                            *)
(***************************************************************************)
PollSnapshots ==
    LET job == jobLabelPrefix :> "job1"
        in == targetNetworkName :> Endpoint("ip1")
        out == "bridge" :> Endpoint("ip2")
    IN {<<Container(<<"/a">>, job, in, <<Port("tcp", 2000)>>)>>,
        <<Container(<<"/n">>, <<>>, out, <<Port("tcp", 2000)>>),
          Container(<<"/B">>, job, in, <<Port("tcp", 2000), Port("tcp", 1000)>>)>>}

\* the record lists that Refresh can return
PollResults ==
    UNION {UNION {SortSlice(run.result) :
                     run \in {r \in extract(cs, <<>>) : ~r.panicked}} :
              cs \in PollSnapshots}

\* web.convert on each of these record lists, computed once
PollViews == [recs \in PollResults |-> webConvert(recs)]

\* the capacity of make(chan []docker.Meta, 1)
UpdatesCap == 1

PollInit ==
    /\ containers = <<>>
    /\ networkLabels = <<>>
    /\ appended = <<>>
    /\ result = <<>>
    /\ exports = <<>>
    /\ pc = "polling"
    /\ gauges = ZeroGauges
    /\ MainStart

\* the timer of time.After delivers on its channel
TimerFire ==
    /\ timer = "armed"
    /\ timer' = "fired"
    /\ UNCHANGED <<extractVars, gauges, mainPc, attempts, errors, cycleXs, file,
                   webVars, historyVars>>

\* tick starting a cycle from whatever the loop is doing
Tick_Overlapping ==
    /\ timer = "fired"
    /\ attempts < MaxCycles
    /\ attempts' = attempts + 1
    /\ timer' = "armed"
    /\ rearmed' = rearmed + 1
    /\ running' = running + 1
    /\ mainPc' = "refresh"
    /\ UNCHANGED <<extractVars, gauges, errors, cycleXs, file, webVars,
                   sent, installed, written, gaugesOf, renderedOf>>

\* case <-t: mAttempts.Inc(); t = time.After(config.RefreshInterval)
Tick ==
    /\ mainPc = "select"
    /\ timer = "fired"
    /\ attempts < MaxCycles
    /\ attempts' = attempts + 1
    /\ timer' = "armed"
    /\ rearmed' = rearmed + 1
    /\ running' = running + 1
    /\ mainPc' = "refresh"
    /\ UNCHANGED <<extractVars, gauges, errors, cycleXs, file, webVars,
                   sent, installed, written, gaugesOf, renderedOf>>

\* xs, err := d.Refresh(ctx): an error of the Docker client, or the records
Refresh ==
    /\ mainPc = "refresh"
    /\ \/ /\ errors' = errors + 1
          /\ running' = running - 1
          /\ mainPc' = "select"
          /\ UNCHANGED cycleXs
       \/ /\ \E recs \in PollResults : cycleXs' = [id |-> attempts, recs |-> recs]
          /\ mainPc' = "write"
          /\ UNCHANGED <<errors, running>>
    /\ UNCHANGED <<extractVars, gauges, timer, attempts, file, webVars,
                   sent, installed, written, gaugesOf, rearmed, renderedOf>>

\* a failed write going on to updateMetrics
WriteResults_NoContinue ==
    /\ mainPc = "write"
    /\ \/ /\ errors' = errors + 1
          /\ UNCHANGED <<file, written>>
       \/ /\ file' = [exists |-> TRUE, entries |-> convert(cycleXs.recs)]
          /\ written' = written \cup {cycleXs.id}
          /\ UNCHANGED errors
    /\ mainPc' = "metrics"
    /\ UNCHANGED <<extractVars, gauges, timer, attempts, cycleXs, webVars,
                   sent, installed, gaugesOf, rearmed, running, renderedOf>>

\* err = writeResultsToFile(outputFile, convert(xs)): an error (marshalling,
\* the file system, the extension), or the file holds the entries.  What a
\* failed write leaves in the file is not modelled.
WriteResults ==
    /\ mainPc = "write"
    /\ \/ /\ errors' = errors + 1
          /\ running' = running - 1
          /\ mainPc' = "select"
          /\ cycleXs' = NoSnapshot
          /\ UNCHANGED <<file, written>>
       \/ /\ file' = [exists |-> TRUE, entries |-> convert(cycleXs.recs)]
          /\ written' = written \cup {cycleXs.id}
          /\ mainPc' = "metrics"
          /\ UNCHANGED <<errors, running, cycleXs>>
    /\ UNCHANGED <<extractVars, gauges, timer, attempts, webVars,
                   sent, installed, gaugesOf, rearmed, renderedOf>>

\* updateMetrics(externalUrl, config.TargetNetwork, xs)
SetGauges ==
    /\ mainPc = "metrics"
    /\ gauges' = updateMetrics(cycleXs.recs)
    /\ gaugesOf' = cycleXs.id
    /\ mainPc' = "send"
    /\ UNCHANGED <<extractVars, timer, attempts, errors, cycleXs, file, webVars,
                   sent, installed, written, rearmed, running, renderedOf>>

\* the send on a channel without a bound
Send_Unbounded ==
    /\ mainPc = "send"
    /\ updates' = Append(updates, cycleXs)
    /\ sent' = Append(sent, cycleXs)
    /\ running' = running - 1
    /\ mainPc' = "select"
    /\ cycleXs' = NoSnapshot
    /\ UNCHANGED <<extractVars, gauges, timer, attempts, errors, file,
                   updPc, update, view, rw, reqPc, rendered,
                   installed, written, gaugesOf, rearmed, renderedOf>>

\* updates <- xs: blocks while the buffer is full
Send ==
    /\ mainPc = "send"
    /\ Len(updates) < UpdatesCap
    /\ updates' = Append(updates, cycleXs)
    /\ sent' = Append(sent, cycleXs)
    /\ running' = running - 1
    /\ mainPc' = "select"
    /\ cycleXs' = NoSnapshot
    /\ UNCHANGED <<extractVars, gauges, timer, attempts, errors, file,
                   updPc, update, view, rw, reqPc, rendered,
                   installed, written, gaugesOf, rearmed, renderedOf>>

\* for update := range h.updates
Receive ==
    /\ updPc = "range"
    /\ updates # <<>>
    /\ update' = Head(updates)
    /\ updates' = Tail(updates)
    /\ updPc' = "lock"
    /\ UNCHANGED <<extractVars, gauges, pollVars, view, rw, reqPc, rendered, historyVars>>

\* view := convert(update); h.rw.Lock()
UpdateLock ==
    /\ updPc = "lock"
    /\ rw = 0
    /\ rw' = -1
    /\ updPc' = "store"
    /\ UNCHANGED <<extractVars, gauges, pollVars, updates, update, view, reqPc,
                   rendered, historyVars>>

\* h.view = view copies a struct of several words: first the counters
StoreCounters ==
    /\ updPc = "store"
    /\ view' = [PollViews[update.recs] EXCEPT !.Items = view.Items]
    /\ updPc' = "items"
    /\ UNCHANGED <<extractVars, gauges, pollVars, updates, update, rw, reqPc,
                   rendered, historyVars>>

\* then the slice of items; h.rw.Unlock()
StoreItems ==
    /\ updPc = "items"
    /\ view' = [view EXCEPT !.Items = PollViews[update.recs].Items]
    /\ installed' = installed + 1
    /\ rw' = 0
    /\ update' = NoSnapshot
    /\ updPc' = "range"
    /\ UNCHANGED <<extractVars, gauges, pollVars, updates, reqPc, rendered,
                   sent, written, gaugesOf, rearmed, running, renderedOf>>

\* ServeHTTP entered without taking the mutex
ServeLock_NoMutex(r) ==
    /\ reqPc[r] = "idle"
    /\ reqPc' = [reqPc EXCEPT ![r] = "locked"]
    /\ UNCHANGED <<extractVars, gauges, pollVars, updates, updPc, update, view, rw,
                   rendered, historyVars>>

\* a request arrives: h.rw.Lock(); defer h.rw.Unlock()
ServeLock(r) ==
    /\ reqPc[r] = "idle"
    /\ rw = 0
    /\ rw' = r
    /\ reqPc' = [reqPc EXCEPT ![r] = "locked"]
    /\ UNCHANGED <<extractVars, gauges, pollVars, updates, updPc, update, view,
                   rendered, historyVars>>

\* template.ParseFS fails: status 500, the deferred Unlock
ServeParseError(r) ==
    /\ reqPc[r] = "locked"
    /\ rendered' = [rendered EXCEPT ![r] = [status |-> "error", body |-> ZeroView]]
    /\ rw' = 0
    /\ reqPc' = [reqPc EXCEPT ![r] = "idle"]
    /\ UNCHANGED <<extractVars, gauges, pollVars, updates, updPc, update, view,
                   historyVars>>

\* t.Execute(w, h.view) copies h.view for the call: first the counters
ServeCopy(r) ==
    /\ reqPc[r] = "locked"
    /\ rendered' = [rendered EXCEPT ![r] =
                       [status |-> "copying", body |-> [view EXCEPT !.Items = <<>>]]]
    /\ reqPc' = [reqPc EXCEPT ![r] = "execute"]
    /\ UNCHANGED <<extractVars, gauges, pollVars, updates, updPc, update, view, rw,
                   historyVars>>

\* a request that keeps the mutex after it has rendered
ServeExecute_NoUnlock(r) ==
    /\ reqPc[r] = "execute"
    /\ rendered' = [rendered EXCEPT ![r] =
                       [status |-> "ok", body |-> [@.body EXCEPT !.Items = view.Items]]]
    /\ renderedOf' = [renderedOf EXCEPT ![r] = installed]
    /\ reqPc' = [reqPc EXCEPT ![r] = "idle"]
    /\ UNCHANGED <<extractVars, gauges, pollVars, updates, updPc, update, view, rw,
                   sent, installed, written, gaugesOf, rearmed, running>>

\* then the slice of items; the template is rendered; the deferred Unlock
ServeExecute(r) ==
    /\ reqPc[r] = "execute"
    /\ rendered' = [rendered EXCEPT ![r] =
                       [status |-> "ok", body |-> [@.body EXCEPT !.Items = view.Items]]]
    /\ renderedOf' = [renderedOf EXCEPT ![r] = installed]
    /\ rw' = 0
    /\ reqPc' = [reqPc EXCEPT ![r] = "idle"]
    /\ UNCHANGED <<extractVars, gauges, pollVars, updates, updPc, update, view,
                   sent, installed, written, gaugesOf, rearmed, running>>

Poller == Tick \/ Refresh \/ WriteResults \/ SetGauges \/ Send

Updater == Receive \/ UpdateLock \/ StoreCounters \/ StoreItems

Serve(r) == ServeLock(r) \/ ServeParseError(r) \/ ServeCopy(r) \/ ServeExecute(r)

PollNext == TimerFire \/ Poller \/ Updater \/ \E r \in Requests : Serve(r)

PollSpec == PollInit /\ [][PollNext]_vars

\* The goroutines of main, of handler.update and of the requests being
\* served are scheduled by the Go runtime, and a timer that was armed fires.
\* A goroutine blocked in sync.Mutex.Lock gets the mutex after finitely many
\* unlocks (the mutex's starvation mode), hence the strong fairness of
\* UpdateLock.  Nothing makes a request arrive.
Fairness ==
    /\ WF_vars(TimerFire)
    /\ WF_vars(Poller)
    /\ WF_vars(Receive \/ StoreCounters \/ StoreItems)
    /\ SF_vars(UpdateLock)
    /\ \A r \in Requests :
          WF_vars(ServeParseError(r) \/ ServeCopy(r) \/ ServeExecute(r))

LiveSpec == PollInit /\ [][PollNext]_vars /\ Fairness

(***************************************************************************)
(* Vocabulary of the properties.                                           *)
(***************************************************************************)
\* extract has returned a list
Returned == pc \in {"extracted", "converted", "measured"}

Named(i) == containers[i].Names # <<>>

NamedContainers == {i \in 1..Len(containers) : Named(i)}

\* the record that the pass appended for the named container i
Rec(i) == appended[Cardinality({j \in 1..i : Named(j)})]

HasJobLabel(c) == jobLabelPrefix \in DOMAIN c.Labels

\* the value of prometheus_scrape_port, "" when the label is absent
ExplicitPort(c) == IF scrapePort \in DOMAIN c.Labels THEN c.Labels[scrapePort] ELSE ""

FlaggedExternal(c) ==
    scrapeExternal \in DOMAIN c.Labels /\ ToLower(c.Labels[scrapeExternal]) = "true"

OnTargetNetwork(c) == targetNetworkName \in DOMAIN c.Networks

\* the private ports of the entries of type tcp
TcpPorts(c) == {c.Ports[k].PrivatePort : k \in {k \in 1..Len(c.Ports) : c.Ports[k].Type = "tcp"}}

Min(S) == CHOOSE x \in S : \A y \in S : x <= y

\* the part of an address after its last colon
PortPart(address) ==
    LET colons == {i \in 1..Len(address) : CharAt(address, i) = ":"}
        last == CHOOSE i \in colons : \A j \in colons : j <= i
    IN SubSeq(address, last + 1, Len(address))

HasSuffix(s, suffix) ==
    Len(s) >= Len(suffix) /\ SubSeq(s, Len(s) - Len(suffix) + 1, Len(s)) = suffix

InjectiveOn(f, S) == \A i, j \in S : i # j => f[i] # f[j]

C2_OneRecordPerNamedContainer ==
    Returned =>
        /\ Len(result) = Cardinality(NamedContainers)
        /\ \A i \in NamedContainers :
              Cardinality({k \in 1..Len(result) : result[k].Name = containers[i].Names[1]})
                = Cardinality({j \in NamedContainers :
                                  containers[j].Names[1] = containers[i].Names[1]})

C2_Witness ==
    /\ Returned
    /\ Len(result) = 2
    /\ \E i \in 1..Len(containers) : ~Named(i)
    /\ \E i \in NamedContainers :
          Len(containers[i].Names) > 1 /\ IsExported(Rec(i))
    /\ \E i \in NamedContainers : ~IsExported(Rec(i))

(***************************************************************************)
(* C3.  The entries convert produces are exactly the exported records, in  *)
(* the order of the record list, each with the single target Address and   *)
(* the record's labels; a record that is not exported gives no entry.      *)
(***************************************************************************)
C3_ConvertExportedOnly ==
    pc = "converted" =>
        LET ex == {k \in 1..Len(result) : IsExported(result[k])}
        IN /\ Len(exports) = Cardinality(ex)
           /\ \E f \in [1..Len(exports) -> ex] :
                 /\ \A a, b \in 1..Len(exports) : a < b => f[a] < f[b]
                 /\ \A a \in 1..Len(exports) :
                       exports[a] = [Targets |-> <<result[f[a]].Address>>,
                                     Labels |-> result[f[a]].Labels]

\* a container with two tcp ports gives one entry, next to a record left out
C3_Witness ==
    /\ pc = "converted"
    /\ Len(exports) = 2
    /\ Len(result) = 3
    /\ \E i \in NamedContainers :
          Cardinality(TcpPorts(containers[i])) > 1 /\ IsExported(Rec(i))

C5_NotInNetworkStops ==
    Returned =>
        \A i \in NamedContainers :
            (/\ HasJobLabel(containers[i])
             /\ ~OnTargetNetwork(containers[i])
             /\ ~FlaggedExternal(containers[i])) =>
                /\ ~Rec(i).IsInTargetNetwork
                /\ ~Rec(i).HasTCPPorts
                /\ Rec(i).Address = ""
                /\ ~IsExported(Rec(i))

C5_Witness ==
    /\ Returned
    /\ \E i \in NamedContainers :
          /\ HasJobLabel(containers[i])
          /\ ~OnTargetNetwork(containers[i])
          /\ scrapeExternal \in DOMAIN containers[i].Labels
          /\ ~FlaggedExternal(containers[i])
          /\ Cardinality(TcpPorts(containers[i])) > 1
          /\ ExplicitPort(containers[i]) # ""
          /\ ~Rec(i).IsInTargetNetwork

(***************************************************************************)
(* C6.  When an address is composed and no non-empty explicit scrape port  *)
(* is supplied, the port of the Address is the least private port of the   *)
(* entries of type tcp, whatever the order and multiplicity of the         *)
(* entries; an entry of another type is never selected.                    *)
(***************************************************************************)
C6_LowestTcpPort ==
    Returned =>
        \A i \in NamedContainers :
            (Rec(i).Address # "" /\ ExplicitPort(containers[i]) = "") =>
                /\ TcpPorts(containers[i]) # {}
                /\ PortPart(Rec(i).Address) = ToString(Min(TcpPorts(containers[i])))

\* the lowest tcp port comes last, after an entry of another type with a
\* lower port
C6_Witness ==
    /\ Returned
    /\ \E i \in NamedContainers :
          LET ports == containers[i].Ports
          IN /\ Rec(i).Address # ""
             /\ ExplicitPort(containers[i]) = ""
             /\ Len(ports) = 2
             /\ ports[1].Type # "tcp"
             /\ ports[1].PrivatePort < ports[2].PrivatePort
             /\ PortPart(Rec(i).Address) = ToString(ports[2].PrivatePort)

(***************************************************************************)
(* C7.  When an address is composed and a non-empty prometheus_scrape_port *)
(* value is supplied, the port of the Address and of the instance label is *)
(* that value verbatim, whether or not it is a private port of the port    *)
(* list, and HasExplicitPort = true.                                       *)
(***************************************************************************)
C7_ExplicitPortVerbatim ==
    Returned =>
        \A i \in NamedContainers :
            LET port == ExplicitPort(containers[i])
            IN (Rec(i).Address # "" /\ port # "") =>
                  /\ HasSuffix(Rec(i).Address, ":" \o port)
                  /\ PortPart(Rec(i).Address) = port
                  /\ Rec(i).Labels[InstanceLabel] =
                        instancePrefix \o containers[i].Names[1] \o ":" \o port
                  /\ Rec(i).HasExplicitPort

\* the explicit port is none of the container's private ports
C7_Witness ==
    /\ Returned
    /\ \E i \in NamedContainers :
          /\ Rec(i).Address # ""
          /\ ExplicitPort(containers[i]) = "1998"
          /\ Cardinality(TcpPorts(containers[i])) > 1
          /\ PortPart(Rec(i).Address) = "1998"

(***************************************************************************)
(* C8.  For every record with HasTCPPorts = true: HasExplicitPort is true  *)
(* if and only if a non-empty explicit scrape port was supplied or the     *)
(* port list has exactly one distinct tcp private port, entries repeating  *)
(* a private port counting once.                                           *)
(***************************************************************************)
C8_ExplicitIffSuppliedOrSingle ==
    Returned =>
        \A i \in NamedContainers :
            Rec(i).HasTCPPorts =>
                (Rec(i).HasExplicitPort <=>
                    \/ ExplicitPort(containers[i]) # ""
                    \/ Cardinality(TcpPorts(containers[i])) = 1)

\* two entries with the same private port and no explicit port
C8_Witness ==
    /\ Returned
    /\ \E i \in NamedContainers :
          LET ports == containers[i].Ports
          IN /\ Rec(i).HasTCPPorts
             /\ ExplicitPort(containers[i]) = ""
             /\ Len(ports) = 2
             /\ ports[1] # ports[2]
             /\ ports[1].Type = "tcp" /\ ports[2].Type = "tcp"
             /\ ports[1].PrivatePort = ports[2].PrivatePort
             /\ Rec(i).HasExplicitPort

(***************************************************************************)
(* C9.  For every container that reaches port selection (on the target     *)
(* network, or flagged external): HasTCPPorts is true if and only if the   *)
(* port list has an entry of type tcp, or the port list is empty and a     *)
(* non-empty explicit scrape port was supplied; when it is false the       *)
(* record has no Address.                                                  *)
(***************************************************************************)
C9_HasTCPPortsIffTcpEntry ==
    Returned =>
        \A i \in NamedContainers :
            (OnTargetNetwork(containers[i]) \/ FlaggedExternal(containers[i])) =>
                /\ Rec(i).HasTCPPorts <=>
                      \/ TcpPorts(containers[i]) # {}
                      \/ /\ Len(containers[i].Ports) = 0
                         /\ ExplicitPort(containers[i]) # ""
                /\ ~Rec(i).HasTCPPorts => Rec(i).Address = ""

(***************************************************************************)
(* C10.  The returned list is ordered: every record that is not exported   *)
(* precedes every exported record, within each group the names ascend, and *)
(* the list is a permutation of the records appended for the containers.   *)
(***************************************************************************)
C10_SortedPermutation ==
    Returned =>
        /\ \A a, b \in 1..Len(result) :
              a < b =>
                 /\ ~(IsExported(result[a]) /\ ~IsExported(result[b]))
                 /\ IsExported(result[a]) = IsExported(result[b])
                       => ~StrLess(result[b].Name, result[a].Name)
        /\ Len(result) = Len(appended)
        /\ \E f \in [1..Len(result) -> 1..Len(result)] :
              /\ InjectiveOn(f, 1..Len(result))
              /\ \A k \in 1..Len(result) : result[k] = appended[f[k]]

\* the records b (exported), a (not exported), B (exported) are rearranged
C10_Witness ==
    /\ Returned
    /\ Len(result) = 3
    /\ result # appended
    /\ IsExported(appended[1]) /\ ~IsExported(appended[2]) /\ IsExported(appended[3])
    /\ StrLess(appended[3].Name, appended[1].Name)
    /\ result = <<appended[2], appended[3], appended[1]>>

(***************************************************************************)
(* C11.  For every container whose prometheus_scrape_external value is     *)
(* "true" in any letter case, on the target network or not: extract        *)
(* completes normally, the record has ScrapeExternal = true and            *)
(* IsInTargetNetwork = true, and when a port is selected the Address is    *)
(* externalHost:port.                                                      *)
(***************************************************************************)
C11_ExternalBypassesNetwork ==
    pc # "start" =>
        \A i \in NamedContainers :
            FlaggedExternal(containers[i]) =>
                /\ Returned
                /\ Rec(i).ScrapeExternal
                /\ Rec(i).IsInTargetNetwork
                /\ Rec(i).HasTCPPorts =>
                      Rec(i).Address = externalHost \o ":" \o PortPart(Rec(i).Address)

(***************************************************************************)
(* C12.  extract never fails: for every container list it terminates       *)
(* without a crash and returns a record for every named container, the     *)
(* anomalies showing only in the flags of the records.                     *)
(***************************************************************************)
C12_ExtractNeverFails ==
    pc # "start" =>
        /\ pc # "panicked"
        /\ Len(result) = Cardinality(NamedContainers)
        /\ \A k \in 1..Len(result) :
              {result[k].HasJob, result[k].IsInTargetNetwork,
               result[k].HasTCPPorts, result[k].HasExplicitPort} \subseteq BOOLEAN

(***************************************************************************)
(* C13.  For every container with the prometheus_job label, on the target  *)
(* network, with an empty port list and a non-empty explicit scrape port   *)
(* P: the record has HasTCPPorts = true, HasExplicitPort = true, is        *)
(* exported and the port of its Address is P; when the network IP is empty *)
(* and the container is not flagged external, the host of the Address is   *)
(* the placeholder 1.1.1.1.                                                *)
(***************************************************************************)
C13_SyntheticPortExported ==
    [][(pc = "start" /\ pc' = "extracted") =>
          \A i \in NamedContainers :
              LET c == containers[i]
                  m == Rec(i)'
                  P == ExplicitPort(c)
              IN (/\ HasJobLabel(c)
                  /\ OnTargetNetwork(c)
                  /\ Len(c.Ports) = 0
                  /\ P # "") =>
                     /\ m.HasTCPPorts
                     /\ m.HasExplicitPort
                     /\ IsExported(m)
                     /\ PortPart(m.Address) = P
                     /\ (c.Networks[targetNetworkName].IPAddress = ""
                           /\ ~FlaggedExternal(c)) =>
                              m.Address = fakeIP \o ":" \o P]_vars

(***************************************************************************)
(* Vocabulary of the label properties.                                     *)
(***************************************************************************)
\* the six scrape-control keys
ControlKeys ==
    {scrapePort, scrapeInterval, scrapeTimeout, scrapePath, scrapeScheme, scrapeExternal}

\* the raw key k with its characters sanitized and the export prefix stripped
StrippedKey(k) == DropPrefix(SanitizeLabelName(k), Len(extractLabelPrefix))

\* the output keys that the container label k can write
LabelTargets(k) ==
    {StrippedKey(k), dockerLabelContainerLabelPrefix \o SanitizeLabelName(k)}
        \cup (IF k = scrapeInterval THEN {ScrapeIntervalLabel} ELSE {})
        \cup (IF k = scrapeTimeout THEN {ScrapeTimeoutLabel} ELSE {})
        \cup (IF k = scrapePath THEN {MetricsPathLabel} ELSE {})
        \cup (IF k = scrapeScheme THEN {SchemeLabel} ELSE {})

\* the keys of the network-label map
NetworkLabelKeys == UNION {DOMAIN networkLabels[id] : id \in DOMAIN networkLabels}

\* the output keys that the steps after the label rewrite pass can write
LaterKeys ==
    {dockerLabelNetworkIP, dockerLabelPortPrivate, dockerLabelPortPublic,
     dockerLabelPortPublicIP, AddressLabel, InstanceLabel} \cup NetworkLabelKeys

(***************************************************************************)
(* C14.  For every container label whose key begins with "prometheus_",    *)
(* is none of the six scrape-control keys and whose output key no other    *)
(* label and no later step writes: the record's Labels map the key with    *)
(* the prefix stripped to the label's value.                               *)
(***************************************************************************)
C14_PrefixedLabelCopied ==
    Returned =>
        \A i \in NamedContainers :
            LET c == containers[i]
            IN \A k \in DOMAIN c.Labels :
                  LET o == StrippedKey(k)
                  IN (/\ HasPrefix(k, extractLabelPrefix)
                      /\ k \notin ControlKeys
                      /\ \A k2 \in DOMAIN c.Labels \ {k} : o \notin LabelTargets(k2)
                      /\ o \notin LaterKeys) =>
                         /\ o \in DOMAIN Rec(i).Labels
                         /\ Rec(i).Labels[o] = c.Labels[k]

\* the dedicated output label of a scrape-control key
DedicatedLabel(k) ==
    CASE k = scrapeInterval -> ScrapeIntervalLabel
      [] k = scrapeTimeout -> ScrapeTimeoutLabel
      [] k = scrapePath -> MetricsPathLabel
      [] k = scrapeScheme -> SchemeLabel

\* the values of the network-label map
NetworkLabelValues ==
    UNION {{networkLabels[id][k] : k \in DOMAIN networkLabels[id]} :
              id \in DOMAIN networkLabels}

(***************************************************************************)
(* C15.  For every container carrying a scrape-control label: no key of    *)
(* the record's Labels is the container-label prefix followed by           *)
(* "prometheus_scrape_", none is a key "scrape_<x>" copied from a control  *)
(* label, and a key holding the interval, timeout, path or scheme value    *)
(* is the dedicated output label unless another container label or a       *)
(* network label supplies that value.                                      *)
(***************************************************************************)
C15_ControlLabelsNotCopied ==
    Returned =>
        \A i \in NamedContainers :
            LET c == containers[i]
                m == Rec(i)
            IN DOMAIN c.Labels \cap ControlKeys # {} =>
                  \A key \in DOMAIN m.Labels :
                      /\ ~HasPrefix(key, dockerLabelContainerLabelPrefix \o extractScrapePrefix)
                      /\ key \notin NetworkLabelKeys => ~HasPrefix(key, "scrape_")
                      /\ \A k \in DOMAIN c.Labels \cap
                                    {scrapeInterval, scrapeTimeout, scrapePath, scrapeScheme} :
                            (/\ m.Labels[key] = c.Labels[k]
                             /\ c.Labels[k] \notin NetworkLabelValues
                             /\ \A k2 \in DOMAIN c.Labels \ {k} : c.Labels[k2] # c.Labels[k]) =>
                                key = DedicatedLabel(k)

\* an exported record of a container with three control labels and a port
\* label, each value under its dedicated label
C15_Witness ==
    /\ Returned
    /\ \E i \in NamedContainers :
          /\ {scrapeInterval, scrapePath, scrapeScheme} \subseteq DOMAIN containers[i].Labels
          /\ IsExported(Rec(i))
          /\ Rec(i).Labels[ScrapeIntervalLabel] = "5s"
          /\ Rec(i).Labels[MetricsPathLabel] = "/stuff/metrics"
          /\ Rec(i).Labels[SchemeLabel] = "https"

\* the labels of the network that the interface of container c on the target
\* network belongs to
TargetNetworkLabels(c) ==
    IF OnTargetNetwork(c) /\ c.Networks[targetNetworkName].NetworkID \in DOMAIN networkLabels
    THEN networkLabels[c.Networks[targetNetworkName].NetworkID]
    ELSE <<>>

(***************************************************************************)
(* C16.  As stated: no record's Labels contains the key "prometheus_job",  *)
(* for every set of container label keys and every network-label map.      *)
(***************************************************************************)
C16_NoJobKey ==
    Returned =>
        \A i \in NamedContainers : jobLabelPrefix \notin DOMAIN Rec(i).Labels

(***************************************************************************)
(* C16, amended.  A record's Labels contains the key "prometheus_job" only *)
(* with the value of a container label whose sanitized key is              *)
(* "prometheus_prometheus_job", or, when an address is composed, with the  *)
(* value that the labels of the target network give that key; the          *)
(* qualification label itself is never forwarded under its own key.        *)
(***************************************************************************)
C16_JobKeyOnlyFromOtherSource ==
    Returned =>
        \A i \in NamedContainers :
            LET c == containers[i]
                m == Rec(i)
                nl == TargetNetworkLabels(c)
            IN jobLabelPrefix \in DOMAIN m.Labels =>
                  \/ \E k \in DOMAIN c.Labels :
                        /\ SanitizeLabelName(k) = extractLabelPrefix \o jobLabelPrefix
                        /\ m.Labels[jobLabelPrefix] = c.Labels[k]
                  \/ /\ m.HasTCPPorts
                     /\ jobLabelPrefix \in DOMAIN nl
                     /\ m.Labels[jobLabelPrefix] = nl[jobLabelPrefix]

\* an exported record of a container with the qualification label and several
\* other labels: the value is under "job", no key "prometheus_job"
C16_Witness ==
    /\ Returned
    /\ \E i \in NamedContainers :
          /\ HasJobLabel(containers[i])
          /\ Cardinality(DOMAIN containers[i].Labels) > 2
          /\ IsExported(Rec(i))
          /\ Rec(i).Labels["job"] = containers[i].Labels[jobLabelPrefix]
          /\ jobLabelPrefix \notin DOMAIN Rec(i).Labels

(***************************************************************************)
(* C17.  As stated: for every container that carries prometheus_job = v    *)
(* the record's Labels["job"] equals v, whatever the other labels and the  *)
(* network-label map.                                                      *)
(***************************************************************************)
C17_JobLabelIsJobValue ==
    Returned =>
        \A i \in NamedContainers :
            HasJobLabel(containers[i]) =>
                /\ JobLabel \in DOMAIN Rec(i).Labels
                /\ Rec(i).Labels[JobLabel] = containers[i].Labels[jobLabelPrefix]

(***************************************************************************)
(* C17, amended.  For every container that carries prometheus_job = v the  *)
(* record has a label "job".  When an address is composed and the labels   *)
(* of the target network contain "job", its value is the network's; else   *)
(* it is v or the value of another container label whose sanitized key is  *)
(* "prometheus_job" (whichever the label loop visits last), hence v when   *)
(* there is no such label.                                                 *)
(***************************************************************************)
C17_JobLabelValue ==
    Returned =>
        \A i \in NamedContainers :
            LET c == containers[i]
                m == Rec(i)
                nl == TargetNetworkLabels(c)
                colliders == {k \in DOMAIN c.Labels \ {jobLabelPrefix} :
                                 SanitizeLabelName(k) = jobLabelPrefix}
            IN HasJobLabel(c) =>
                  /\ JobLabel \in DOMAIN m.Labels
                  /\ m.Labels[JobLabel] =
                        IF m.HasTCPPorts /\ JobLabel \in DOMAIN nl
                        THEN nl[JobLabel]
                        ELSE IF m.Labels[JobLabel] \in {c.Labels[k] : k \in colliders}
                        THEN m.Labels[JobLabel]
                        ELSE c.Labels[jobLabelPrefix]

\* an exported record that took labels of the target network, none of them
\* "job", from a container without a colliding label
C17_Witness ==
    /\ Returned
    /\ \E i \in NamedContainers :
          LET c == containers[i]
          IN /\ HasJobLabel(c)
             /\ \A k \in DOMAIN c.Labels \ {jobLabelPrefix} :
                   SanitizeLabelName(k) # jobLabelPrefix
             /\ TargetNetworkLabels(c) # <<>>
             /\ JobLabel \notin DOMAIN TargetNetworkLabels(c)
             /\ Rec(i).Address # ""
             /\ Rec(i).Labels[JobLabel] = "job1"

\* key is non-empty and made of letters, digits and underscores only
ValidLabelKey(key) ==
    /\ key # ""
    /\ \A j \in 1..Len(key) : IsLabelChar(CharAt(key, j))

(***************************************************************************)
(* C18.  Every key of every record's Labels is non-empty and consists of   *)
(* letters, digits and underscores only, for every set of raw container    *)
(* label keys; the raw key "prometheus&=5b" yields the key "_5b".          *)
(***************************************************************************)
C18_KeysSanitized ==
    Returned =>
        \A i \in NamedContainers :
            /\ \A key \in DOMAIN Rec(i).Labels : ValidLabelKey(key)
            /\ "prometheus&=5b" \in DOMAIN containers[i].Labels =>
                  "_5b" \in DOMAIN Rec(i).Labels

(***************************************************************************)
(* C19.  For every record with HasTCPPorts = true: Labels["__address__"]   *)
(* equals Address, Labels["instance"] equals instancePrefix + Name + ":" + *)
(* the port part of Address, and Name is the container's first name; a     *)
(* container label or a network label writing those keys changes nothing.  *)
(***************************************************************************)
C19_AddressAndInstanceLabels ==
    Returned =>
        \A i \in NamedContainers :
            LET m == Rec(i)
            IN m.HasTCPPorts =>
                  /\ m.Address # ""
                  /\ m.Name = containers[i].Names[1]
                  /\ m.Labels[AddressLabel] = m.Address
                  /\ m.Labels[InstanceLabel] =
                        instancePrefix \o m.Name \o ":" \o PortPart(m.Address)

\* a container label and the labels of the target network both write the
\* address or the instance key, and the record keeps the composed values
C19_Witness ==
    /\ Returned
    /\ \E i \in NamedContainers :
          LET c == containers[i]
          IN /\ \E k \in DOMAIN c.Labels : StrippedKey(k) \in {AddressLabel, InstanceLabel}
             /\ {AddressLabel, InstanceLabel} \subseteq DOMAIN TargetNetworkLabels(c)
             /\ Rec(i).HasTCPPorts
             /\ Rec(i).Labels[AddressLabel] = "ip1:2000"
             /\ Rec(i).Labels[InstanceLabel] = instancePrefix \o "/app1:2000"

\* the identity labels that extract sets for container c at the start
IdentityLabels(c) ==
    (dockerLabelContainerID :> c.ID)
        @@ (dockerLabelContainerName :> c.Names[1])
        @@ (dockerLabelContainerNetworkMode :> c.NetworkMode)

(***************************************************************************)
(* C20.  As stated: every record, exported or not, carries the container   *)
(* id, container name and network mode labels with the container's ID,     *)
(* first name and networking mode; no later step removes or replaces them. *)
(***************************************************************************)
C20_IdentityLabelsKept ==
    Returned =>
        \A i \in NamedContainers :
            \A K \in DOMAIN IdentityLabels(containers[i]) :
                /\ K \in DOMAIN Rec(i).Labels
                /\ Rec(i).Labels[K] = IdentityLabels(containers[i])[K]

(***************************************************************************)
(* C20, amended.  Every record, exported or not, has the three identity    *)
(* keys.  The value of a key is the one the labels of the target network   *)
(* give it when an address is composed and they contain the key; else the  *)
(* value of a container label whose sanitized key is "prometheus_" + the   *)
(* key, when there is one; else the container's own ID, first name or      *)
(* networking mode.                                                        *)
(***************************************************************************)
C20_IdentityLabelsPresent ==
    Returned =>
        \A i \in NamedContainers :
            LET c == containers[i]
                m == Rec(i)
                nl == TargetNetworkLabels(c)
            IN \A K \in DOMAIN IdentityLabels(c) :
                  LET writers == {k \in DOMAIN c.Labels :
                                     SanitizeLabelName(k) = extractLabelPrefix \o K}
                  IN /\ K \in DOMAIN m.Labels
                     /\ m.Labels[K] \in
                           IF m.HasTCPPorts /\ K \in DOMAIN nl THEN {nl[K]}
                           ELSE IF writers # {} THEN {c.Labels[k] : k \in writers}
                           ELSE {IdentityLabels(c)[K]}

\* a record that is not exported, after the label pass, the port labels and
\* the network labels, with the container's own identity
C20_Witness ==
    /\ Returned
    /\ \E i \in NamedContainers :
          LET c == containers[i]
          IN /\ ~IsExported(Rec(i))
             /\ Rec(i).HasTCPPorts
             /\ DOMAIN c.Labels # {}
             /\ TargetNetworkLabels(c) # <<>>
             /\ \A K \in DOMAIN IdentityLabels(c) : Rec(i).Labels[K] = IdentityLabels(c)[K]

(***************************************************************************)
(* C21.  For every record with a composed address: every key of the labels *)
(* of the target interface's network is in Labels with the network's       *)
(* value, whatever the label rewrite pass wrote for it; only the address   *)
(* and instance labels, written afterwards, take precedence.               *)
(***************************************************************************)
C21_NetworkLabelsOverride ==
    Returned =>
        \A i \in NamedContainers :
            LET m == Rec(i)
                nl == TargetNetworkLabels(containers[i])
            IN m.HasTCPPorts =>
                  \A k \in DOMAIN nl :
                      /\ k \in DOMAIN m.Labels
                      /\ m.Labels[k] =
                            IF k = AddressLabel THEN m.Address
                            ELSE IF k = InstanceLabel
                            THEN instancePrefix \o m.Name \o ":" \o PortPart(m.Address)
                            ELSE nl[k]

\* the label rewrite pass wrote "key1" and the network's value replaced it
C21_Witness ==
    /\ Returned
    /\ \E i \in NamedContainers :
          LET c == containers[i]
          IN /\ "prometheus_key1" \in DOMAIN c.Labels
             /\ "key1" \in DOMAIN TargetNetworkLabels(c)
             /\ Rec(i).HasTCPPorts
             /\ Rec(i).Labels["key1"] = "netval"
             /\ c.Labels["prometheus_key1"] # "netval"

\* the keys of the labels that extract gives every record at the start
BasicKeys ==
    {dockerLabelContainerID, dockerLabelContainerName,
     dockerLabelContainerState, dockerLabelContainerNetworkMode}

C24_InputsUnchanged ==
    [][(pc = "start" /\ pc' = "extracted") =>
          /\ containers' = containers
          /\ networkLabels' = networkLabels]_vars

\* the output key that the label loop writes for the raw key k: none for the
\* port and the external flag, which go to a local and to a field, and none
\* for the other keys under the scrape prefix
WrittenKeys(k) ==
    LET ln == SanitizeLabelName(k)
    IN IF HasPrefix(ln, extractScrapePrefix)
       THEN IF k \in {scrapeInterval, scrapeTimeout, scrapePath, scrapeScheme}
            THEN {DedicatedLabel(k)} ELSE {}
       ELSE IF HasPrefix(ln, extractLabelPrefix)
            THEN {StrippedKey(k)}
            ELSE {dockerLabelContainerLabelPrefix \o ln}

\* the raw labels of c map to pairwise distinct output keys
DistinctOutputKeys(c) ==
    \A k1, k2 \in DOMAIN c.Labels :
        k1 # k2 => WrittenKeys(k1) \cap WrittenKeys(k2) = {}

(***************************************************************************)
(* C29.  For every container whose raw labels map to pairwise distinct     *)
(* output keys, every order in which the label map can be iterated gives   *)
(* the record that the run returned: same flags, Address and Labels.       *)
(***************************************************************************)
C29_DeterministicUpToCollisions ==
    [][(pc = "start" /\ pc' = "extracted") =>
          \A i \in NamedContainers :
              DistinctOutputKeys(containers[i]) =>
                  \A o \in resolve(containers[i], networkLabels) :
                      /\ o.kind = "append"
                      /\ o.meta = Rec(i)']_vars

\* an exported record of a container with at least four labels with distinct
\* output keys, so at least 24 iteration orders
C29_Witness ==
    /\ Returned
    /\ \E i \in NamedContainers :
          LET c == containers[i]
          IN /\ Cardinality(DOMAIN c.Labels) >= 4
             /\ DistinctOutputKeys(c)
             /\ IsExported(Rec(i))
             /\ Cardinality(DOMAIN Rec(i).Labels) >= 10

(***************************************************************************)
(* C22.  After updateMetrics on a record list: ignored is the number of    *)
(* records without job, not-in-target-network the number with job outside  *)
(* the network, no-exposed-ports the number with job, in the network,      *)
(* without TCP ports; the three classes are disjoint and with the exported *)
(* records they add up to the container count; multiple-ports is the       *)
(* number of exported records with HasExplicitPort = false.                *)
(***************************************************************************)
C22_GaugesClassifyRecords ==
    pc = "measured" =>
        LET K == 1..Len(result)
            noJob == {k \in K : ~result[k].HasJob}
            outside == {k \in K : result[k].HasJob /\ ~result[k].IsInTargetNetwork}
            portless == {k \in K : /\ result[k].HasJob
                                   /\ result[k].IsInTargetNetwork
                                   /\ ~result[k].HasTCPPorts}
            exported == {k \in K : IsExported(result[k])}
        IN /\ gauges.count = Len(result)
           /\ gauges.ignored = Cardinality(noJob)
           /\ gauges.notInNetwork = Cardinality(outside)
           /\ gauges.noPorts = Cardinality(portless)
           /\ gauges.ignored + gauges.notInNetwork + gauges.noPorts
                  + Cardinality(exported) = gauges.count
           /\ \A k \in K :
                 (result[k].HasJob /\ ~IsExported(result[k])) =>
                     (k \in outside) # (k \in portless)
           /\ gauges.notExplicit =
                 Cardinality({k \in exported : ~result[k].HasExplicitPort})

\* three records in three classes, one of them exported without an explicit port
C22_Witness ==
    /\ pc = "measured"
    /\ gauges.count = 3
    /\ gauges.ignored = 1
    /\ gauges.notInNetwork = 1
    /\ gauges.notExplicit = 1

(***************************************************************************)
(* Vocabulary of the hand-over properties.                                 *)
(***************************************************************************)
\* the view of the n-th snapshot that the poller handed over, the view of a
\* new handler for n = 0
ViewOfSent(n) == IF n = 0 THEN ZeroView ELSE PollViews[sent[n].recs]

\* the views of the snapshots handed over so far
SentViews == {ViewOfSent(n) : n \in 0..Len(sent)}

(***************************************************************************)
(* C25.  Under every interleaving of the poller, the update goroutine and  *)
(* concurrent requests, the view a request renders is the complete         *)
(* conversion of one snapshot that the poller handed over, or the initial  *)
(* empty view: never a mixture of two snapshots or a partly built view.    *)
(***************************************************************************)
C25_RenderedViewIsOneSnapshot ==
    /\ \A r \in Requests :
          /\ rendered[r].status = "ok" =>
                /\ rendered[r].body \in SentViews
                /\ rendered[r].body = ViewOfSent(renderedOf[r])
          /\ reqPc[r] \in {"locked", "execute"} => view = ViewOfSent(installed)
    /\ installed <= Len(sent)

\* a request is between its two reads of the view while the update goroutine
\* waits for the mutex with the view of another snapshot
C25_Witness ==
    \E r \in Requests :
        /\ reqPc[r] = "execute"
        /\ updPc = "lock"
        /\ installed >= 1
        /\ PollViews[update.recs].Total # view.Total
        /\ PollViews[update.recs].Items # view.Items

(***************************************************************************)
(* C26.  As stated: once the poller's send of a snapshot has completed,    *)
(* every request served afterwards renders that snapshot or a newer one.   *)
(* A request that takes the mutex renders the view installed at that       *)
(* moment, so the view must then be that of the last snapshot sent.        *)
(***************************************************************************)
C26_ServedAfterSendRendersIt ==
    [][\A r \in Requests :
          (reqPc[r] = "idle" /\ reqPc'[r] = "locked" /\ sent # <<>>) =>
              installed = Len(sent)]_vars

(***************************************************************************)
(* C26, amended.  Snapshots are installed as the view in the order they    *)
(* were sent, one at a time; a request renders the snapshot installed when *)
(* it holds the mutex, so never an older one than a request before it; the *)
(* installed view lags behind the last completed send by at most two       *)
(* snapshots: one in the channel's buffer and one that the update          *)
(* goroutine has received and not yet stored.                              *)
(***************************************************************************)
C26_ViewLagsByAtMostTwo ==
    /\ [](/\ installed + Len(updates) + (IF updPc = "range" THEN 0 ELSE 1) = Len(sent)
          /\ Len(sent) - installed <= UpdatesCap + 1
          /\ \A r \in Requests : renderedOf[r] <= installed
          /\ updPc # "items" => view = ViewOfSent(installed))
    /\ [][/\ installed' \in {installed, installed + 1}
          /\ \A r \in Requests :
                /\ renderedOf'[r] >= renderedOf[r]
                /\ renderedOf'[r] # renderedOf[r] => renderedOf'[r] = installed]_vars

\* a request is rendering the first snapshot while the second is in the
\* update goroutine's hands and the third in the channel
C26_Witness ==
    \E r \in Requests :
        /\ reqPc[r] = "execute"
        /\ installed >= 1
        /\ Len(sent) - installed = 2
        /\ updPc = "lock"
        /\ Len(updates) = 1

(***************************************************************************)
(* C27.  The poller runs one cycle at a time: no cycle starts while        *)
(* another is in progress, also when the timer fires again during a cycle; *)
(* a Refresh only ever follows a timer tick, so a failed cycle is not      *)
(* retried; the timer is re-armed exactly once per cycle.                  *)
(***************************************************************************)
C27_OneCycleAtATime ==
    /\ [](/\ running \in {0, 1}
          /\ running = 1 <=> mainPc # "select"
          /\ rearmed = attempts)
    /\ [][/\ (mainPc' = "refresh" /\ mainPc # "refresh") =>
                /\ mainPc = "select"
                /\ timer = "fired"
                /\ timer' = "armed"
                /\ attempts' = attempts + 1
          /\ errors' # errors => mainPc' = "select" /\ attempts' = attempts]_vars

\* a cycle after a failed one is still in progress when the timer has fired
\* again
C27_Witness ==
    /\ mainPc = "send"
    /\ timer = "fired"
    /\ errors >= 1
    /\ running = 1
    /\ Len(updates) = UpdatesCap

(***************************************************************************)
(* C28.  A cycle in which Refresh or the write of the output file fails    *)
(* increments the error counter exactly once and leaves the gauges and the *)
(* hand-over as they were; the attempt counter counts the cycles, so       *)
(* errors <= attempts; every snapshot handed to the status view or shown   *)
(* by the gauges was written to the output file first.                     *)
(***************************************************************************)
C28_FailedCycleLeavesState ==
    /\ [](/\ errors <= attempts
          /\ attempts = errors + Len(sent) + running
          /\ \A n \in 1..Len(sent) : sent[n].id \in written
          /\ gaugesOf \in written \cup {0}
          /\ gauges = IF gaugesOf = 0 THEN ZeroGauges
                      ELSE IF mainPc = "send" THEN updateMetrics(cycleXs.recs)
                      ELSE updateMetrics(sent[Len(sent)].recs)
          /\ mainPc \in {"metrics", "send"} =>
                /\ cycleXs.id \in written
                /\ file = [exists |-> TRUE, entries |-> convert(cycleXs.recs)])
    /\ [][errors' # errors =>
             /\ errors' = errors + 1
             /\ mainPc \in {"refresh", "write"}
             /\ mainPc' = "select"
             /\ running' = 0
             /\ UNCHANGED <<gauges, gaugesOf, file, written, webVars, sent, installed>>]_vars

\* two of three cycles failed; the gauges and the hand-over are those of the
\* first cycle
C28_Witness ==
    /\ attempts = 3
    /\ errors = 2
    /\ running = 0
    /\ gaugesOf = 1
    /\ written = {1}
    /\ Len(sent) = 1
    /\ gauges.count > 0

=============================================================================
